---- MODULE Spec2Model ----
(***************************************************************************)
(* A model of src/migrate.py: the setup.py / requirements*.{in,txt} to     *)
(* pyproject.toml migration.                                               *)
(*                                                                         *)
(* Representation.                                                         *)
(*  - A Python str the code slices, concatenates, compares against a       *)
(*    literal or calls .replace()/.strip() on is a sequence of one-        *)
(*    character strings, so those conversions are computed, not assumed.   *)
(*  - A dict is a function from its keys to its values; a dict whose key   *)
(*    order the code relies on (requirements_in_map) is a sequence of      *)
(*    <<key, value>> pairs in insertion order.                             *)
(*  - Inside a dependency table a TOML string is [str |-> chars] and a     *)
(*    TOML inline table is a record without a str field, which is what     *)
(*    isinstance(specs, dict) tells apart.                                 *)
(*  - A call that can raise returns [raised |-> <exception or "none">,...] *)
(*  - requirements.parse() and the regular expressions belong to libraries;*)
(*    a parsed requirements file is the sequence of Requirement records    *)
(*    the parser returns, and setup.py is the sequence of the literal      *)
(*    assignments the patterns can match, in source order.                 *)
(***************************************************************************)
EXTENDS Integers, Sequences, FiniteSets, TLC

VARIABLES
    pc,               \* where migrate() is, or the step of a function-level run
    package_path,     \* stem of the package directory
    namespace,        \* --namespace, or None
    delete,           \* --delete
    private_repo,     \* --private-repo, or None
    files,            \* the package directory: which files exist, and their content
    setup,            \* update_pyproject's local `setup`
    requirements,     \* update_pyproject's local `requirements` (a generator)
    requirements_dev, \* update_pyproject's local `requirements_dev`
    pyproject,        \* update_pyproject's local `pyproject`
    err,              \* the exception that ended the run, or NoError
    done,             \* the statements of the run completed so far, in order
    read,             \* locals requirements_in / requirements_txt of the latest
                      \* load_requirements call, until the next statement ends
    arg,              \* a function-level run: the arguments of the call;
                      \* migrate: the package directory as the run found it
    ret               \* a function-level run: what the call returned

vars == <<pc, package_path, namespace, delete, private_repo, files, setup,
          requirements, requirements_dev, pyproject, err, done, read, arg, ret>>

-----------------------------------------------------------------------------
(* Python values *)

None == <<"None">>

NoError == [raised |-> "none"]

Whitespace == {" ", "\t", "\n"}

StartsWith(s, p) == Len(s) >= Len(p) /\ SubSeq(s, 1, Len(p)) = p

\* str.replace(old, new): every non-overlapping occurrence, left to right.
RECURSIVE Replace(_, _, _)
Replace(s, old, new) ==
    IF s = <<>> THEN <<>>
    ELSE IF StartsWith(s, old)
         THEN new \o Replace(SubSeq(s, Len(old) + 1, Len(s)), old, new)
         ELSE <<Head(s)>> \o Replace(Tail(s), old, new)

\* s[n:]
SliceFrom(s, n) == IF n >= Len(s) THEN <<>> ELSE SubSeq(s, n + 1, Len(s))

RECURSIVE LStrip(_)
LStrip(s) == IF s # <<>> /\ Head(s) \in Whitespace THEN LStrip(Tail(s)) ELSE s

RECURSIVE RStrip(_)
RStrip(s) ==
    IF s # <<>> /\ s[Len(s)] \in Whitespace
    THEN RStrip(SubSeq(s, 1, Len(s) - 1))
    ELSE s

\* str.strip()
Strip(s) == RStrip(LStrip(s))

EmptyDict == <<>>

\* d[k] = v
SetItem(d, k, v) == [x \in DOMAIN d \cup {k} |-> IF x = k THEN v ELSE d[x]]

\* d after d.setdefault(k, v)
SetDefault(d, k, v) == IF k \in DOMAIN d THEN d ELSE SetItem(d, k, v)

\* d.get(k, v)
Get(d, k, v) == IF k \in DOMAIN d THEN d[k] ELSE v

\* A TOML string held where a table may stand instead.
Str(s) == [str |-> s]

\* isinstance(specs, dict)
IsDict(v) == "str" \notin DOMAIN v

-----------------------------------------------------------------------------
(* pyproject: the nested setdefault chains *)

\* pyproject after pyproject.setdefault("tool", {}).setdefault("poetry", {})
EnsurePoetry(pp) ==
    LET t == SetDefault(pp, "tool", EmptyDict)
    IN  SetItem(t, "tool", SetDefault(t["tool"], "poetry", EmptyDict))

\* pyproject["tool"]["poetry"], once it is there
PoetryOf(pp) == EnsurePoetry(pp)["tool"]["poetry"]

\* pyproject with tool.poetry[key] = value
SetPoetry(pp, key, value) ==
    LET e == EnsurePoetry(pp)
    IN  SetItem(e, "tool", SetItem(e["tool"], "poetry",
                                   SetItem(e["tool"]["poetry"], key, value)))

\* tool.poetry.setdefault(section, {})
SectionOf(pp, section) == Get(PoetryOf(pp), section, EmptyDict)

-----------------------------------------------------------------------------
(* add_requirement_section *)

SectionName(dev) == IF dev THEN "dev-dependencies" ELSE "dependencies"

Translate_NoCaret(requirement, dev) ==
    LET shaped ==
            IF requirement.editable
            THEN IF requirement.path = None
                 THEN [raised |-> "TypeError"]
                 ELSE LET specs == [path |-> Strip(SliceFrom(requirement.path, 5)),
                                    develop |-> TRUE]
                      IN  [raised |-> "none",
                           specs |-> IF dev THEN SetItem(specs, "extras", <<"dev">>)
                                     ELSE specs]
            ELSE IF Len(requirement.specs) = 1
            THEN [raised |-> "none", specs |-> Str(requirement.specs[1][2])]
            ELSE [raised |-> "NotImplementedError"]
    IN  IF shaped.raised # "none" THEN shaped
        ELSE IF requirement.extras # <<>>
        THEN LET specs == IF IsDict(shaped.specs) THEN shaped.specs
                          ELSE [version |-> shaped.specs.str]
             IN  [raised |-> "none",
                  specs |-> SetItem(specs, "extras", requirement.extras)]
        ELSE shaped

\* The body of the for loop up to "Write spec": the value for one requirement.
Translate(requirement, dev) ==
    LET shaped ==
            IF requirement.editable
            THEN IF requirement.path = None
                 THEN [raised |-> "TypeError"]
                 ELSE LET specs == [path |-> Strip(SliceFrom(requirement.path, 5)),
                                    develop |-> TRUE]
                      IN  [raised |-> "none",
                           specs |-> IF dev THEN SetItem(specs, "extras", <<"dev">>)
                                     ELSE specs]
            ELSE IF Len(requirement.specs) = 1
            THEN [raised |-> "none",
                  specs |-> Str(<<"^">> \o requirement.specs[1][2])]
            ELSE IF Len(requirement.specs) = 0
            THEN [raised |-> "NotImplementedError"]
            ELSE [raised |-> "NotImplementedError"]
    IN  IF shaped.raised # "none" THEN shaped
        ELSE IF requirement.extras # <<>>
        THEN LET specs == IF IsDict(shaped.specs) THEN shaped.specs
                          ELSE [version |-> shaped.specs.str]
             IN  [raised |-> "none",
                  specs |-> SetItem(specs, "extras", requirement.extras)]
        ELSE shaped

\* The for loop over what the iterable yields: stops at the first raise.
RECURSIVE WriteAll(_, _, _)
WriteAll(dependencies, items, dev) ==
    IF items = <<>> THEN [raised |-> "none", dependencies |-> dependencies]
    ELSE LET t == Translate(Head(items), dev)
         IN  IF t.raised # "none"
             THEN [raised |-> t.raised, dependencies |-> dependencies]
             ELSE WriteAll(SetItem(dependencies, Head(items).name, t.specs),
                           Tail(items), dev)

\* `iteration` is what iterating the argument does: the items it yields, then
\* the exception it raises instead of the next item ("none": it is exhausted).
AddRequirementSection(pp, iteration, dev) ==
    LET section == SectionName(dev)
        w == WriteAll(SectionOf(pp, section), iteration.items, dev)
        out == SetPoetry(pp, section, w.dependencies)
    IN  IF w.raised # "none" THEN [raised |-> w.raised, pyproject |-> out]
        ELSE IF iteration.raised # "none"
        THEN [raised |-> iteration.raised, pyproject |-> out]
        ELSE [raised |-> "none", pyproject |-> out]

-----------------------------------------------------------------------------
(* load_requirements *)

PipTools == <<"p", "i", "p", "-", "t", "o", "o", "l", "s">>

\* An insertion-ordered dict, as the sequence of its <<key, value>> items.
KeysOf(d) == [i \in 1..Len(d) |-> d[i][1]]

HasKey(d, k) == \E i \in 1..Len(d) : d[i][1] = k

Lookup(d, k) == d[CHOOSE i \in 1..Len(d) : d[i][1] = k][2]

\* d[k] = v: a key already there keeps its place and takes the new value.
Put(d, k, v) ==
    IF HasKey(d, k)
    THEN [i \in 1..Len(d) |-> IF d[i][1] = k THEN <<k, v>> ELSE d[i]]
    ELSE Append(d, <<k, v>>)

\* {requirement.name.replace("_", "-"): requirement for requirement in reqs}
RECURSIVE NameMap(_, _)
NameMap(reqs, acc) ==
    IF reqs = <<>> THEN acc
    ELSE NameMap(Tail(reqs),
                 Put(acc, Replace(Head(reqs).name, <<"_">>, <<"-">>), Head(reqs)))

RECURSIVE GenTrace_SkipMissing(_, _)
GenTrace_SkipMissing(keys, txt_map) ==
    IF keys = <<>> THEN [items |-> <<>>, raised |-> "none"]
    ELSE IF Head(keys) = PipTools \/ ~HasKey(txt_map, Head(keys))
    THEN GenTrace_SkipMissing(Tail(keys), txt_map)
    ELSE LET rest == GenTrace_SkipMissing(Tail(keys), txt_map)
         IN  [items |-> <<Lookup(txt_map, Head(keys))>> \o rest.items,
              raised |-> rest.raised]

\* What iterating the generator expression of the return statement does: the
\* filter runs before the lookup, and a failed lookup raises where it stands.
RECURSIVE GenTrace(_, _)
GenTrace(keys, txt_map) ==
    IF keys = <<>> THEN [items |-> <<>>, raised |-> "none"]
    ELSE IF Head(keys) = PipTools THEN GenTrace(Tail(keys), txt_map)
    ELSE IF ~HasKey(txt_map, Head(keys))
    THEN [items |-> <<>>, raised |-> "KeyError"]
    ELSE LET rest == GenTrace(Tail(keys), txt_map)
         IN  [items |-> <<Lookup(txt_map, Head(keys))>> \o rest.items,
              raised |-> rest.raised]

Iterate(generator) == GenTrace(generator.keys, generator.txt_map)

\* A path of the package directory: a file with its content, or nothing.
File(content) == [exists |-> TRUE, content |-> content]

NoFile == [exists |-> FALSE]

LoadRequirements_FirstMissingOnly(in_file, txt_file, requirement_filename) ==
    IF ~in_file.exists \/ ~txt_file.exists
    THEN [raised |-> "FileNotFoundError"]
    ELSE
    LET requirements_in == in_file.content
        requirements_txt == txt_file.content
        missing_names == SelectSeq(requirements_in, LAMBDA r : r.name = None)
    IN  IF missing_names # <<>>
        THEN [raised |-> "ValueError",
              filename |-> requirement_filename,
              missing_names |-> <<Head(missing_names)>>]
        ELSE IF \E i \in 1..Len(requirements_txt) : requirements_txt[i].name = None
        THEN [raised |-> "AttributeError"]
        ELSE [raised |-> "none",
              generator |-> [keys |-> KeysOf(NameMap(requirements_in, <<>>)),
                             txt_map |-> NameMap(requirements_txt, <<>>)]]

\* in_file / txt_file: <name>.in and <name>.txt; the content of each is what
\* requirements.parse returns for it (for the .txt, after the hash and
\* backslash stripping).
LoadRequirements(in_file, txt_file, requirement_filename) ==
    IF ~in_file.exists \/ ~txt_file.exists
    THEN [raised |-> "FileNotFoundError"]
    ELSE
    LET requirements_in == in_file.content
        requirements_txt == txt_file.content
        missing_names == SelectSeq(requirements_in, LAMBDA r : r.name = None)
    IN  IF missing_names # <<>>
        THEN [raised |-> "ValueError",
              filename |-> requirement_filename,
              missing_names |-> missing_names]
        ELSE IF \E i \in 1..Len(requirements_txt) : requirements_txt[i].name = None
        THEN [raised |-> "AttributeError"]
        ELSE LET requirements_in_map == NameMap(requirements_in, <<>>)
                 requirements_txt_map == NameMap(requirements_txt, <<>>)
             IN  IF HasKey(requirements_in_map, None)
                    \/ HasKey(requirements_txt_map, None)
                 THEN [raised |-> "ValueError", filename |-> requirement_filename,
                       missing_names |-> <<>>]
                 ELSE [raised |-> "none",
                       generator |-> [keys |-> KeysOf(requirements_in_map),
                                      txt_map |-> requirements_txt_map]]

-----------------------------------------------------------------------------
(* Inputs *)

\* Every sequence over `pool` of length at most n.
RECURSIVE SeqsUpTo(_, _)
SeqsUpTo(pool, n) ==
    IF n = 0 THEN {<<>>}
    ELSE LET shorter == SeqsUpTo(pool, n - 1)
         IN  shorter \cup {Append(s, x) : s \in shorter, x \in pool}

Chars_a_b == <<"a", "_", "b">>
Chars_a_hyphen_b == <<"a", "-", "b">>
Chars_c == <<"c">>
Chars_pip_tools == <<"p", "i", "p", "_", "t", "o", "o", "l", "s">>

Version1 == <<"1", ".", "0">>
Version2 == <<"2", ".", "2", "8">>

PathDotSlash == <<".", "/", "l", "i", "b", "s", "/", "f", "o", "o">>
PathFileUrl == <<"f", "i", "l", "e", ":", ".", ".", "/", "f", "o", "o">>
PathPadded == <<"f", "i", "l", "e", ":", " ", "x", "/", "y", " ">>

\* A requirements.requirement.Requirement, by the attributes the code reads.
Requirement(name, editable, path, extras, specs) ==
    [name |-> name, editable |-> editable, path |-> path,
     extras |-> extras, specs |-> specs]

Pinned(name, version) ==
    Requirement(name, FALSE, None, <<>>, << <<"==", version>> >>)

Wanted(name) == Requirement(name, FALSE, None, <<>>, <<>>)

Editable(name, path) == Requirement(name, TRUE, path, <<>>, <<>>)

ExtrasChoices == {<<>>, <<"x", "y">>}

SpecsChoices ==
    {<<>>, << <<"==", Version2>> >>, << <<">=", Version1>>, <<"<", Version2>> >>}

PathChoices == {PathDotSlash, PathFileUrl, PathPadded}

\* The requirement shapes add_requirement_section tells apart.
TranslatePool ==
    {Requirement(n, FALSE, None, e, s) :
        n \in {Chars_a_b, Chars_c}, e \in ExtrasChoices, s \in SpecsChoices}
    \cup
    {Requirement(n, TRUE, p, e, <<>>) :
        n \in {Chars_a_b, Chars_c}, e \in ExtrasChoices, p \in PathChoices}

MaxReqs == 2

KeptEntry == Str(<<"^", "0">>)

\* A manifest with nothing in it, and one with hand-written dependencies.
TranslateManifests ==
    {EmptyDict,
     [tool |-> [poetry |-> [dependencies |-> (Chars_c :> KeptEntry),
                            license |-> "MIT"]]]}

\* Files the wanted (.in) side can hold: named, build-tool and nameless lines.
WantedPool ==
    {Wanted(Chars_a_b), Wanted(Chars_a_hyphen_b), Wanted(Chars_c),
     Wanted(PipTools), Wanted(Chars_pip_tools),
     Editable(None, PathDotSlash), Editable(None, PathFileUrl)}

ResolvedPool ==
    {Pinned(Chars_a_b, Version1), Pinned(Chars_a_hyphen_b, Version2),
     Pinned(Chars_c, Version1), Pinned(PipTools, Version2),
     Editable(None, PathFileUrl)}

MaxWanted == 2

MaxResolved == 2

-----------------------------------------------------------------------------
(* Function-level runs: one call, its arguments drawn from the input sets *)

Idle ==
    /\ package_path = <<>>
    /\ namespace = None
    /\ delete = FALSE
    /\ private_repo = None
    /\ files = EmptyDict
    /\ setup = None
    /\ requirements = None
    /\ requirements_dev = None
    /\ pyproject = None
    /\ err = NoError
    /\ done = <<>>
    /\ read = None

IdleUnchanged ==
    UNCHANGED <<package_path, namespace, delete, private_repo, files, setup,
                requirements, requirements_dev, pyproject, err, done, read>>

InitTranslate ==
    /\ Idle
    /\ pc = "call"
    /\ arg \in [pyproject : TranslateManifests,
                requirements : SeqsUpTo(TranslatePool, MaxReqs),
                dev : BOOLEAN]
    /\ ret = None

\* add_requirement_section(pyproject, requirements, dev) on a list
CallAddRequirementSection ==
    /\ pc = "call"
    /\ ret' = AddRequirementSection(arg.pyproject,
                                    [items |-> arg.requirements, raised |-> "none"],
                                    arg.dev)
    /\ pc' = "returned"
    /\ UNCHANGED arg
    /\ IdleUnchanged

NextTranslate == CallAddRequirementSection

SpecTranslate == InitTranslate /\ [][NextTranslate]_vars

InitLoad ==
    /\ Idle
    /\ pc = "call"
    /\ arg \in [requirements_in : SeqsUpTo(WantedPool, MaxWanted),
                requirements_txt : SeqsUpTo(ResolvedPool, MaxResolved)]
    /\ ret = None

\* load_requirements(package_path, "requirements")
CallLoadRequirements ==
    /\ pc = "call"
    /\ ret' = LoadRequirements(File(arg.requirements_in),
                               File(arg.requirements_txt), "requirements")
    /\ pc' = IF ret'.raised = "none" THEN "loaded" ELSE "raised"
    /\ UNCHANGED arg
    /\ IdleUnchanged

\* list(<the generator load_requirements returned>)
ConsumeGenerator ==
    /\ pc = "loaded"
    /\ ret' = Iterate(ret.generator)
    /\ pc' = "consumed"
    /\ UNCHANGED arg
    /\ IdleUnchanged

\* add_requirement_section({}, <the generator>, dev)
TranslateGenerator ==
    /\ pc = "loaded"
    /\ \E dev \in BOOLEAN :
          /\ ret' = [dev |-> dev,
                      result |-> AddRequirementSection(EmptyDict,
                                                       Iterate(ret.generator), dev)]
          /\ pc' = "translated"
    /\ UNCHANGED arg
    /\ IdleUnchanged

NextLoad == CallLoadRequirements \/ ConsumeGenerator \/ TranslateGenerator

SpecLoad == InitLoad /\ [][NextLoad]_vars

-----------------------------------------------------------------------------
(* Properties of add_requirement_section, under SpecTranslate *)

\* Ascending sequence of a finite set of integers.
RECURSIVE Ascending(_)
Ascending(S) ==
    IF S = {} THEN <<>>
    ELSE LET m == CHOOSE x \in S : \A y \in S : x <= y
         IN  <<m>> \o Ascending(S \ {m})

\* A record the translation has no value for: not editable, and not exactly
\* one constraint.
Unsupported(r) == ~r.editable /\ Len(r.specs) # 1

\* Index of the first unsupported record of the list, or one past its end.
FirstUnsupported(items) ==
    LET bad == {i \in 1..Len(items) : Unsupported(items[i])}
    IN  IF bad = {} THEN Len(items) + 1 ELSE CHOOSE i \in bad : \A j \in bad : i <= j

\* The record at i is the last one before `stop` that carries its name.
LastOfName(items, i, stop) ==
    /\ i < stop
    /\ \A j \in (i + 1)..(stop - 1) : items[j].name # items[i].name

SectionBefore == Get(Get(Get(arg.pyproject, "tool", EmptyDict), "poetry", EmptyDict),
                     SectionName(arg.dev), EmptyDict)

SectionAfter == ret.pyproject["tool"]["poetry"][SectionName(arg.dev)]

CaretEntry(r) ==
    IF r.extras = <<>>
    THEN [str |-> <<"^">> \o r.specs[1][2]]
    ELSE [version |-> <<"^">> \o r.specs[1][2], extras |-> r.extras]

\* C2: a non-editable record with exactly one constraint is written as the
\* string "^" + version, or as {version: "^" + version, extras: [...]} when it
\* has extras; a non-editable record with zero or several constraints makes
\* the call raise, and nothing is written under its name for it.
C2_SingleConstraintOrRaise ==
    pc = "returned" =>
        LET items == arg.requirements
            stop == FirstUnsupported(items)
        IN  /\ \A i \in 1..Len(items) :
                  (~items[i].editable /\ LastOfName(items, i, stop))
                      => /\ items[i].name \in DOMAIN SectionAfter
                         /\ SectionAfter[items[i].name] = CaretEntry(items[i])
            /\ stop <= Len(items) =>
                  /\ ret.raised = "NotImplementedError"
                  /\ (\A j \in 1..(stop - 1) : items[j].name # items[stop].name)
                        => /\ (items[stop].name \in DOMAIN SectionAfter)
                                = (items[stop].name \in DOMAIN SectionBefore)
                           /\ items[stop].name \in DOMAIN SectionBefore
                                => SectionAfter[items[stop].name]
                                     = SectionBefore[items[stop].name]

\* A call that wrote a single-constraint record with extras and then met an
\* unconstrained record under a name the manifest did not have.
C2_Witness ==
    /\ pc = "returned"
    /\ Len(arg.requirements) = 2
    /\ ~arg.requirements[1].editable
    /\ Len(arg.requirements[1].specs) = 1
    /\ arg.requirements[1].extras # <<>>
    /\ ~arg.requirements[2].editable
    /\ arg.requirements[2].specs = <<>>
    /\ arg.requirements[2].name # arg.requirements[1].name
    /\ arg.requirements[2].name \notin DOMAIN SectionBefore
    /\ ret.raised = "NotImplementedError"

\* The local path without its leading installer marker ("file:" or "./").
WithoutMarker(path) ==
    IF StartsWith(path, <<"f", "i", "l", "e", ":">>) THEN SubSeq(path, 6, Len(path))
    ELSE IF StartsWith(path, <<".", "/">>) THEN SubSeq(path, 3, Len(path))
    ELSE path

\* C3: an editable record without extras is written as {path: P, develop:
\* true}, P the local path with only its leading installer marker removed and
\* trimmed (./libs/foo gives libs/foo), plus extras ["dev"] exactly when dev.
C3_EditableEntry ==
    pc = "returned" =>
        LET items == arg.requirements
            stop == FirstUnsupported(items)
        IN  \A i \in 1..Len(items) :
                (items[i].editable /\ items[i].extras = <<>>
                    /\ LastOfName(items, i, stop))
                    => /\ items[i].name \in DOMAIN SectionAfter
                       /\ SectionAfter[items[i].name] =
                            IF arg.dev
                            THEN [path |-> Strip(WithoutMarker(items[i].path)),
                                  develop |-> TRUE, extras |-> <<"dev">>]
                            ELSE [path |-> Strip(WithoutMarker(items[i].path)),
                                  develop |-> TRUE]

-----------------------------------------------------------------------------
(* Properties of load_requirements, under SpecLoad *)

\* A name with every underscore turned into a hyphen.
Canonical(name) == [i \in 1..Len(name) |-> IF name[i] = "_" THEN "-" ELSE name[i]]

AllNamed(reqs) == \A i \in 1..Len(reqs) : reqs[i].name # None

\* Positions of the wanted file that introduce a canonical name other than
\* pip-tools.
WantedPositions(wanted) ==
    {i \in 1..Len(wanted) :
        /\ Canonical(wanted[i].name) # PipTools
        /\ \A j \in 1..(i - 1) : Canonical(wanted[j].name) # Canonical(wanted[i].name)}

ResolvedPositions(resolved, name) ==
    {j \in 1..Len(resolved) : Canonical(resolved[j].name) = name}

\* The resolved file's entry for a canonical name: its last line of that name.
ResolvedEntry(resolved, name) ==
    LET at == ResolvedPositions(resolved, name)
    IN  resolved[CHOOSE j \in at : \A k \in at : k <= j]

\* C4: when every wanted entry is named, the generator yields the resolved
\* entries of the distinct wanted canonical names in first-occurrence order,
\* pip-tools left out; a wanted name (other than pip-tools) the resolved file
\* lacks ends the iteration with an error where it stands, and is not skipped.
C4_ReconciledSequence ==
    LET wanted == arg.requirements_in
        resolved == arg.requirements_txt
    IN  /\ (pc \in {"loaded", "raised"} /\ AllNamed(wanted) /\ AllNamed(resolved))
              => pc = "loaded"
        /\ pc = "consumed" =>
              LET positions == WantedPositions(wanted)
                  missing == {i \in positions :
                                 ResolvedPositions(resolved,
                                                   Canonical(wanted[i].name)) = {}}
                  yielded == Ascending({i \in positions : \A m \in missing : i < m})
              IN  /\ ret.items =
                        [n \in 1..Len(yielded) |->
                            ResolvedEntry(resolved, Canonical(wanted[yielded[n]].name))]
                  /\ ret.raised = IF missing = {} THEN "none" ELSE "KeyError"

\* An iteration that yielded an entry for a name spelled differently in the
\* two files, passed over pip-tools, and then failed on a missing name.
C4_Witness ==
    /\ pc = "consumed"
    /\ ret.raised = "KeyError"
    /\ Len(ret.items) = 1
    /\ Len(arg.requirements_in) = 2
    /\ arg.requirements_in[1].name # ret.items[1].name

\* C5: every entry add_requirement_section writes is keyed by the canonical
\* name (underscores as hyphens) whatever the spelling in the two files, one
\* key per canonical name.
C5_CanonicalKeys ==
    (pc = "translated" /\ ret.result.raised = "none") =>
        LET section == ret.result.pyproject["tool"]["poetry"][SectionName(ret.dev)]
        IN  /\ \A k \in DOMAIN section : k = Canonical(k)
            /\ Cardinality(DOMAIN section)
                 = Cardinality(WantedPositions(arg.requirements_in))

-----------------------------------------------------------------------------
(* setup.py: the literal assignments the patterns match *)

\* One match candidate: key="value" (for "console_script", "cli = package").
Line(key, value) == [key |-> key, value |-> value]

\* <key>_re.findall(setup): the captured groups, in source order.
FindAll(text, key) ==
    LET hits == SelectSeq(text, LAMBDA l : l.key = key)
    IN  [i \in 1..Len(hits) |-> hits[i].value]

DefaultPython == <<"^", "3", ".", "9">>

GetPythonVersion_DefaultOnOtherOperator(text) ==
    LET python_requires == FindAll(text, "python_requires")
    IN  IF python_requires = <<>> THEN DefaultPython
        ELSE IF StartsWith(python_requires[1], <<">", "=">>)
        THEN Replace(python_requires[1], <<">", "=">>, <<"^">>)
        ELSE DefaultPython

GetPythonVersion(text) ==
    LET python_requires == FindAll(text, "python_requires")
    IN  IF python_requires = <<>> THEN DefaultPython
        ELSE Replace(python_requires[1], <<">", "=">>, <<"^">>)

-----------------------------------------------------------------------------
(* add_private_repo *)

\* private_repo.split(":", maxsplit=1)
RECURSIVE SplitOnce(_, _)
SplitOnce(s, head) ==
    IF s = <<>> THEN <<head>>
    ELSE IF Head(s) = ":" THEN <<head, Tail(s)>>
    ELSE SplitOnce(Tail(s), Append(head, Head(s)))

\* The for loop: the first source of that name takes the url.
RECURSIVE UpdateFirst(_, _, _)
UpdateFirst(sources, name, url) ==
    IF sources = <<>> THEN <<>>
    ELSE IF Head(sources).name = name
         THEN <<[Head(sources) EXCEPT !.url = url]>> \o Tail(sources)
         ELSE <<Head(sources)>> \o UpdateFirst(Tail(sources), name, url)

AddPrivateRepo_AlwaysAppend(pp, repo) ==
    LET parts == SplitOnce(repo, <<>>)
    IN  IF Len(parts) # 2 THEN [raised |-> "ValueError", pyproject |-> pp]
        ELSE LET sources == Get(PoetryOf(pp), "source", <<>>)
             IN  [raised |-> "none",
                  pyproject |-> SetPoetry(pp, "source",
                      Append(sources, [name |-> parts[1], url |-> parts[2]]))]

AddPrivateRepo(pp, repo) ==
    LET parts == SplitOnce(repo, <<>>)
        t == SetDefault(pp, "tool", EmptyDict)
    IN  IF Len(parts) # 2 THEN [raised |-> "ValueError", pyproject |-> pp]
        ELSE IF "poetry" \notin DOMAIN t["tool"]
        \* .setdefault("poetry") stores and returns None
        THEN [raised |-> "AttributeError",
              pyproject |-> SetItem(t, "tool", SetItem(t["tool"], "poetry", None))]
        ELSE LET name == parts[1]
                 url == parts[2]
                 sources == Get(t["tool"]["poetry"], "source", <<>>)
             IN  [raised |-> "none",
                  pyproject |->
                      SetPoetry(t, "source",
                          IF \E i \in 1..Len(sources) : sources[i].name = name
                          THEN UpdateFirst(sources, name, url)
                          ELSE Append(sources, [name |-> name, url |-> url]))]

-----------------------------------------------------------------------------
(* get_python_version, under SpecPython *)

PythonRequiresChoices ==
    {<<">", "=", "3", ".", "8">>,
     <<"~", "=", "3", ".", "8">>,
     <<"=", "=", "3">>,
     <<">", "=", "3", ",", "<", "4">>,
     <<">", "=", "3", ",", ">", "=", "2">>}

SetupLinePool ==
    {Line("python_requires", v) : v \in PythonRequiresChoices}
    \cup {Line("version", <<"1", ".", "2">>)}

MaxSetupLines == 3

InitPython ==
    /\ Idle
    /\ pc = "call"
    /\ arg \in SeqsUpTo(SetupLinePool, MaxSetupLines)
    /\ ret = None

\* get_python_version(setup)
CallGetPythonVersion ==
    /\ pc = "call"
    /\ ret' = GetPythonVersion(arg)
    /\ pc' = "returned"
    /\ UNCHANGED arg
    /\ IdleUnchanged

NextPython == CallGetPythonVersion

SpecPython == InitPython /\ [][NextPython]_vars

\* The python_requires literals of the text, in order.
PythonLiterals ==
    LET at == Ascending({i \in 1..Len(arg) : arg[i].key = "python_requires"})
    IN  [n \in 1..Len(at) |-> arg[at[n]].value]

\* C7 as stated: the default without a literal, the literal with its leading
\* >= rewritten to ^ when it starts with >=, and the default again when the
\* literal uses any other operator.
C7_DefaultOnOtherOperator ==
    pc = "returned" =>
        IF PythonLiterals = <<>> THEN ret = DefaultPython
        ELSE LET literal == PythonLiterals[1]
             IN  IF StartsWith(literal, <<">", "=">>)
                 THEN ret = <<"^">> \o SubSeq(literal, 3, Len(literal))
                 ELSE ret = DefaultPython

\* Where the literal holds ">=".
GreaterEqualAt(literal) ==
    {i \in 1..(Len(literal) - 1) : literal[i] = ">" /\ literal[i + 1] = "="}

\* C7, amended: the default without a literal; otherwise the first literal
\* with every >= rewritten to ^ and every other character kept, so that a
\* literal without >= comes back unchanged (not as the default).
C7_RewritesGreaterEqual ==
    pc = "returned" =>
        IF PythonLiterals = <<>> THEN ret = DefaultPython
        ELSE LET literal == PythonLiterals[1]
                 ge == GreaterEqualAt(literal)
                 \* position in the result of the character at i
                 to(i) == i - Cardinality({p \in ge : p < i})
             IN  /\ Len(ret) = Len(literal) - Cardinality(ge)
                 /\ \A i \in 1..Len(literal) :
                       IF i \in ge THEN ret[to(i)] = "^"
                       ELSE (i - 1) \notin ge => ret[to(i)] = literal[i]
                 /\ ge = {} => ret = literal

\* A literal with another operator came back as it was.
C7_Witness ==
    /\ pc = "returned"
    /\ PythonLiterals # <<>>
    /\ PythonLiterals[1] = <<"~", "=", "3", ".", "8">>
    /\ ret = <<"~", "=", "3", ".", "8">>

-----------------------------------------------------------------------------
(* add_private_repo, under SpecRepo *)

Name_n == <<"n">>
Name_m == <<"m">>
Name_k == <<"k">>
Url_u == <<"u">>
Url_w == <<"w">>
Url_colon == <<"h", ":", "/", "p">>

SourcePool == {[name |-> n, url |-> u] : n \in {Name_n, Name_m, Name_k},
                                         u \in {Url_u, Url_w}}

MaxSources == 2

DistinctNames(sources) ==
    \A i, j \in 1..Len(sources) : sources[i].name = sources[j].name => i = j

\* --private-repo values: <name>:<url>, a url with a colon of its own, and
\* a value without any colon.
RepoChoices ==
    {Name_n \o <<":">> \o Url_u, Name_n \o <<":">> \o Url_colon,
     Name_m \o <<":">> \o Url_w, <<"p">> \o <<":">> \o Url_u, <<"n", "u">>}

MaxCalls == 3

\* Manifests: a source list of distinct names, no source key, no tool.poetry.
RepoManifests ==
    {[tool |-> [poetry |-> [source |-> s]]] :
        s \in {x \in SeqsUpTo(SourcePool, MaxSources) : DistinctNames(x)}}
    \cup {[tool |-> [poetry |-> [name |-> Chars_c]]], EmptyDict}

InitRepo ==
    /\ package_path = <<>>
    /\ namespace = None
    /\ delete = FALSE
    /\ private_repo = None
    /\ files = EmptyDict
    /\ setup = None
    /\ requirements = None
    /\ requirements_dev = None
    /\ err = NoError
    /\ done = <<>>
    /\ read = None
    /\ pc = "call"
    /\ pyproject \in RepoManifests
    /\ arg = [initial |-> pyproject, before |-> pyproject, calls |-> <<>>]
    /\ ret = NoError

\* add_private_repo(pyproject, private_repo), again and again on its result
CallAddPrivateRepo ==
    /\ pc = "call"
    /\ Len(arg.calls) < MaxCalls
    /\ \E repo \in RepoChoices :
          LET r == AddPrivateRepo(pyproject, repo)
          IN  /\ pyproject' = r.pyproject
              /\ ret' = [raised |-> r.raised]
              /\ arg' = [arg EXCEPT !.before = pyproject,
                                    !.calls = Append(@, repo)]
              /\ pc' = IF r.raised = "AttributeError" THEN "raised" ELSE "call"
    /\ UNCHANGED <<package_path, namespace, delete, private_repo, files, setup,
                   requirements, requirements_dev, err, done, read>>

NextRepo == CallAddPrivateRepo

SpecRepo == InitRepo /\ [][NextRepo]_vars

HasPoetry(pp) == "tool" \in DOMAIN pp /\ "poetry" \in DOMAIN pp["tool"]

SourcesOf(pp) == Get(pp["tool"]["poetry"], "source", <<>>)

HasColon(repo) == \E i \in 1..Len(repo) : repo[i] = ":"

FirstColon(repo) ==
    CHOOSE i \in 1..Len(repo) :
        repo[i] = ":" /\ \A j \in 1..(i - 1) : repo[j] # ":"

RepoName(repo) == SubSeq(repo, 1, FirstColon(repo) - 1)

RepoUrl(repo) == SubSeq(repo, FirstColon(repo) + 1, Len(repo))

NamesOf(sources) == [i \in 1..Len(sources) |-> sources[i].name]

\* C6: from a source list of distinct names, after any calls the list holds
\* one entry per distinct name, each with the url of the latest call for that
\* name (or its first url when no call named it); a call for a name already
\* there keeps the list's length and order, a call for a new name appends one
\* entry at the end.
C6_RegistryMerge ==
    HasPoetry(arg.initial) =>
        LET sources == SourcesOf(pyproject)
            initial == SourcesOf(arg.initial)
            before == SourcesOf(arg.before)
            valid == {c \in 1..Len(arg.calls) : HasColon(arg.calls[c])}
            callsFor(name) == {c \in valid : RepoName(arg.calls[c]) = name}
        IN  /\ DistinctNames(sources)
            /\ {sources[i].name : i \in 1..Len(sources)}
                 = {initial[i].name : i \in 1..Len(initial)}
                     \cup {RepoName(arg.calls[c]) : c \in valid}
            /\ \A i \in 1..Len(sources) :
                  LET mine == callsFor(sources[i].name)
                  IN  IF mine = {}
                      THEN sources[i] = initial[i]
                      ELSE sources[i].url =
                             RepoUrl(arg.calls[CHOOSE c \in mine :
                                                  \A d \in mine : d <= c])
            /\ (arg.calls # <<>> /\ Len(arg.calls) \in valid) =>
                  LET repo == arg.calls[Len(arg.calls)]
                  IN  IF \E i \in 1..Len(before) : before[i].name = RepoName(repo)
                      THEN NamesOf(sources) = NamesOf(before)
                      ELSE sources = Append(before, [name |-> RepoName(repo),
                                                     url |-> RepoUrl(repo)])
            /\ (arg.calls # <<>> /\ Len(arg.calls) \notin valid) =>
                  pyproject = arg.before

\* The same name was given twice with different urls (the second holding a
\* colon), then a new name: two entries, the first with the second url.
C6_Witness ==
    /\ HasPoetry(arg.initial)
    /\ SourcesOf(arg.initial) = <<>>
    /\ arg.calls = <<Name_n \o <<":">> \o Url_u, Name_n \o <<":">> \o Url_colon,
                     Name_m \o <<":">> \o Url_w>>
    /\ Len(SourcesOf(pyproject)) = 2
    /\ SourcesOf(pyproject)[1] = [name |-> Name_n, url |-> Url_colon]

-----------------------------------------------------------------------------
(* The other sections update_pyproject writes *)

\* get_description
GetDescription(text) ==
    LET description == FindAll(text, "description")
        new_line_description == FindAll(text, "description_paren")
    IN  IF description # <<>> THEN description[1]
        ELSE IF new_line_description # <<>> THEN new_line_description[1]
        ELSE <<>>

\* Truth value of an Optional[str] argument: neither None nor "".
Truthy(s) == s # None /\ s # <<>>

AddPoetrySection_AlwaysPackages(stem, pp, text, ns) ==
    LET author == FindAll(text, "author")
        author_email == FindAll(text, "author_email")
        url == FindAll(text, "url")
        version == FindAll(text, "version")
    IN  IF author = <<>> \/ author_email = <<>> \/ url = <<>> \/ version = <<>>
        THEN [raised |-> "IndexError", pyproject |-> pp]
        ELSE LET identified ==
                     [k \in DOMAIN PoetryOf(pp)
                            \cup {"name", "description", "authors", "readme",
                                  "repository", "version"} |->
                         CASE k = "name" -> Replace(stem, <<"_">>, <<"-">>)
                           [] k = "description" -> GetDescription(text)
                           [] k = "authors" ->
                                 <<author[1] \o <<" ", "<">> \o author_email[1] \o <<">">> >>
                           [] k = "readme" -> "README.md"
                           [] k = "repository" -> url[1]
                           [] k = "version" -> version[1]
                           [] OTHER -> PoetryOf(pp)[k]]
                 poetry == SetItem(identified, "packages", <<[include |-> ns]>>)
                 e == EnsurePoetry(pp)
             IN  [raised |-> "none",
                  pyproject |-> SetItem(e, "tool", SetItem(e["tool"], "poetry", poetry))]

\* add_poetry_section; stem is package_path.stem
AddPoetrySection(stem, pp, text, ns) ==
    LET author == FindAll(text, "author")
        author_email == FindAll(text, "author_email")
        url == FindAll(text, "url")
        version == FindAll(text, "version")
    IN  IF author = <<>> \/ author_email = <<>> \/ url = <<>> \/ version = <<>>
        \* findall(...)[0] on an empty list
        THEN [raised |-> "IndexError", pyproject |-> pp]
        ELSE LET identified ==
                     [k \in DOMAIN PoetryOf(pp)
                            \cup {"name", "description", "authors", "readme",
                                  "repository", "version"} |->
                         CASE k = "name" -> Replace(stem, <<"_">>, <<"-">>)
                           [] k = "description" -> GetDescription(text)
                           [] k = "authors" ->
                                 <<author[1] \o <<" ", "<">> \o author_email[1] \o <<">">> >>
                           [] k = "readme" -> "README.md"
                           [] k = "repository" -> url[1]
                           [] k = "version" -> version[1]
                           [] OTHER -> PoetryOf(pp)[k]]
                 poetry == IF Truthy(ns)
                           THEN SetItem(identified, "packages", <<[include |-> ns]>>)
                           ELSE identified
                 e == EnsurePoetry(pp)
             IN  [raised |-> "none",
                  pyproject |-> SetItem(e, "tool", SetItem(e["tool"], "poetry", poetry))]

PythonKey == <<"p", "y", "t", "h", "o", "n">>

\* add_python_version
AddPythonVersion(pp, text) ==
    SetPoetry(pp, "dependencies",
              SetItem(SectionOf(pp, "dependencies"), PythonKey,
                      Str(GetPythonVersion(text))))

\* add_build_system
AddBuildSystem(pp) ==
    LET build_system == Get(pp, "build-system", EmptyDict)
    IN  SetItem(pp, "build-system",
                SetItem(SetItem(build_system, "requires", <<"poetry-core>=1.0.0">>),
                        "build-backend", "poetry.core.masonry.api"))

\* {match["cli"]: match["package"] for match in matches}, then scripts.update:
\* every match in source order, a later one of the same name winning.
RECURSIVE UpdateScripts(_, _)
UpdateScripts(scripts, matches) ==
    IF matches = <<>> THEN scripts
    ELSE UpdateScripts(SetItem(scripts, Head(matches)[1], Head(matches)[2]),
                       Tail(matches))

\* add_scripts
AddScripts(pp, text) ==
    LET matches == FindAll(text, "console_script")
    IN  IF matches # <<>>
        THEN SetPoetry(pp, "scripts", UpdateScripts(SectionOf(pp, "scripts"), matches))
        ELSE pp

\* Lines 239-247 of update_pyproject as one function of the loaded manifest:
\* the result of the first statement that raises, or the assembled manifest.
Assemble(pp, stem, text, ns, reqs, reqs_dev, repo) ==
    LET a == AddPoetrySection(stem, pp, text, ns)
    IN  IF a.raised # "none" THEN a
        ELSE
        LET b == AddBuildSystem(AddPythonVersion(a.pyproject, text))
            c == AddRequirementSection(b, Iterate(reqs), FALSE)
        IN  IF c.raised # "none" THEN c
            ELSE
            LET d == AddRequirementSection(c.pyproject, Iterate(reqs_dev), TRUE)
            IN  IF d.raised # "none" THEN d
                ELSE LET s == AddScripts(d.pyproject, text)
                     IN  IF Truthy(repo) THEN AddPrivateRepo(s, repo)
                         ELSE [raised |-> "none", pyproject |-> s]

-----------------------------------------------------------------------------
(* migrate: inputs *)

Stem == <<"m", "y", "_", "p", "k", "g">>

Text_description == <<"T", "o", "o", "l">>
Text_author == <<"J">>
Text_email == <<"j", "@", "x">>
Text_url == <<"h", "/", "r">>
Text_version == <<"1", ".", "2">>
Cli_run == <<"r", "u", "n">>
Cli_old == <<"o", "l", "d">>
Target_new == <<"m", ":", "f">>
Target_old == <<"m", ":", "g">>

\* Every field, a python_requires and two entry points (one name twice).
SetupFull ==
    <<Line("description", Text_description), Line("version", Text_version),
      Line("author", Text_author), Line("author_email", Text_email),
      Line("url", Text_url),
      Line("python_requires", <<">", "=", "3", ".", "8">>),
      Line("console_script", <<Cli_run, Target_old>>),
      Line("console_script", <<Cli_run, Target_new>>)>>

\* The mandatory fields only, the description in its parenthesised form.
SetupBare ==
    <<Line("description_paren", Text_description), Line("version", Text_version),
      Line("author", Text_author), Line("author_email", Text_email),
      Line("url", Text_url)>>

\* No author= literal.
SetupNoAuthor ==
    <<Line("version", Text_version), Line("author_email", Text_email),
      Line("url", Text_url)>>

SetupFiles == {NoFile, File(SetupFull), File(SetupBare), File(SetupNoAuthor)}

\* A manifest someone wrote by hand, with entries in every section the run
\* touches and in sections it does not.
HandWritten ==
    ("other" :> [k |-> "v"])
    @@ ("build-system" :> [requires |-> <<"setuptools">>, extra |-> "x"])
    @@ ("tool" :>
          [black |-> [line |-> "88"],
           poetry |->
               ("name" :> <<"o", "l", "d">>)
               @@ ("license" :> "MIT")
               @@ ("packages" :> <<[include |-> <<"o">>]>>)
               @@ ("dependencies" :>
                     ((PythonKey :> Str(<<"^", "2">>))
                      @@ (Chars_c :> KeptEntry)
                      @@ (Chars_a_b :> Str(<<"^", "0", ".", "1">>))))
               @@ ("dev-dependencies" :> (Chars_c :> KeptEntry))
               @@ ("scripts" :> ((Cli_old :> Target_old) @@ (Cli_run :> Target_old)))
               @@ ("source" :> <<[name |-> Name_k, url |-> Url_u],
                                 [name |-> Name_n, url |-> Url_w]>>)])

ManifestFiles == {NoFile, File(EmptyDict), File(HandWritten)}

NamespaceChoices == {None, <<>>, <<"n", "s">>}

PrivateRepoChoices == {None, Name_n \o <<":">> \o Url_colon, <<"n", "u">>}

PipeWantedPool ==
    {Wanted(Chars_a_b), Editable(None, PathDotSlash), Editable(None, PathFileUrl)}

PipeResolvedPool ==
    {Pinned(Chars_a_hyphen_b, Version2), Wanted(Chars_a_b),
     Editable(Chars_a_b, PathFileUrl)}

PipeMaxWanted == 2

PipeMaxResolved == 1

WantedFiles == {File(c) : c \in SeqsUpTo(PipeWantedPool, PipeMaxWanted)}

ResolvedFiles ==
    {File(c) : c \in SeqsUpTo(PipeResolvedPool, PipeMaxResolved)} \cup {NoFile}

NoRead == [live |-> FALSE]

NoGenerator == [keys |-> <<>>, txt_map |-> <<>>, made |-> FALSE]

-----------------------------------------------------------------------------
(* migrate: one action per statement of migrate and update_pyproject *)

Init ==
    /\ pc = "update_pyproject"
    /\ package_path = Stem
    /\ namespace \in NamespaceChoices
    /\ delete \in BOOLEAN
    /\ private_repo \in PrivateRepoChoices
    /\ files \in [setup_py : SetupFiles, pyproject_toml : ManifestFiles,
                  requirements : {TRUE}]
    /\ setup = None
    /\ requirements = NoGenerator
    /\ requirements_dev = NoGenerator
    /\ pyproject = None
    /\ err = NoError
    /\ done = <<>>
    /\ read = NoRead
    /\ arg = files
    /\ ret = None

Raise(e) ==
    /\ pc' = "failed"
    /\ err' = e

\* update_pyproject, lines 228-233
ReadSetup ==
    /\ pc = "update_pyproject"
    /\ IF files.setup_py.exists
       THEN /\ setup' = files.setup_py.content
            /\ pc' = "load_requirements"
       ELSE /\ pc' = "check_dependencies"
            /\ UNCHANGED setup
    /\ UNCHANGED <<package_path, namespace, delete, private_repo, files,
                   requirements, requirements_dev, pyproject, err, done, read,
                   arg, ret>>

\* line 235: requirements = load_requirements(package_path, "requirements")
LoadRequirementsStep ==
    /\ pc = "load_requirements"
    /\ \E in_file \in WantedFiles, txt_file \in ResolvedFiles :
          LET r == LoadRequirements(in_file, txt_file, "requirements")
          IN  /\ read' = [live |-> TRUE, in_file |-> in_file, txt_file |-> txt_file]
              /\ IF r.raised = "none"
                 THEN /\ requirements' = r.generator @@ [made |-> TRUE]
                      /\ pc' = "load_requirements_dev"
                      /\ done' = Append(done, "load_requirements")
                      /\ UNCHANGED err
                 ELSE /\ Raise(r)
                      /\ UNCHANGED <<requirements, done>>
    /\ UNCHANGED <<package_path, namespace, delete, private_repo, files, setup,
                   requirements_dev, pyproject, arg, ret>>

\* line 236: requirements_dev = load_requirements(package_path, "requirements-dev")
LoadRequirementsDevStep ==
    /\ pc = "load_requirements_dev"
    /\ \E in_file \in WantedFiles, txt_file \in ResolvedFiles :
          LET r == LoadRequirements(in_file, txt_file, "requirements-dev")
          IN  /\ read' = [live |-> TRUE, in_file |-> in_file, txt_file |-> txt_file]
              /\ IF r.raised = "none"
                 THEN /\ requirements_dev' = r.generator @@ [made |-> TRUE]
                      /\ pc' = "toml_load"
                      /\ done' = Append(done, "load_requirements_dev")
                      /\ UNCHANGED err
                 ELSE /\ Raise(r)
                      /\ UNCHANGED <<requirements_dev, done>>
    /\ UNCHANGED <<package_path, namespace, delete, private_repo, files, setup,
                   requirements, pyproject, arg, ret>>

\* line 238: pyproject = toml.load(pyproject_path.open())
TomlLoad ==
    /\ pc = "toml_load"
    /\ read' = NoRead
    /\ IF files.pyproject_toml.exists
       THEN /\ pyproject' = files.pyproject_toml.content
            /\ pc' = "add_poetry_section"
            /\ done' = Append(done, "toml_load")
            /\ UNCHANGED err
       ELSE /\ Raise([raised |-> "FileNotFoundError"])
            /\ UNCHANGED <<pyproject, done>>
    /\ UNCHANGED <<package_path, namespace, delete, private_repo, files, setup,
                   requirements, requirements_dev, arg, ret>>

Assign_SwallowError(r, here, next) ==
    /\ pc = here
    /\ pyproject' = r.pyproject
    /\ pc' = next
    /\ done' = IF r.raised = "none" THEN Append(done, here) ELSE done
    /\ UNCHANGED <<package_path, namespace, delete, private_repo, files, setup,
                   requirements, requirements_dev, err, read, arg, ret>>

\* A statement `pyproject = f(pyproject, ...)` whose result is r.
Assign(r, here, next) ==
    /\ pc = here
    /\ IF r.raised = "none"
       THEN /\ pyproject' = r.pyproject
            /\ pc' = next
            /\ done' = Append(done, here)
            /\ UNCHANGED err
       ELSE /\ Raise([raised |-> r.raised])
            /\ UNCHANGED <<pyproject, done>>
    /\ UNCHANGED <<package_path, namespace, delete, private_repo, files, setup,
                   requirements, requirements_dev, read, arg, ret>>

\* line 239
AddPoetrySectionStep ==
    /\ pc = "add_poetry_section"
    /\ Assign(AddPoetrySection(package_path, pyproject, setup, namespace),
              "add_poetry_section", "add_python_version")

\* line 240
AddPythonVersionStep ==
    /\ pc = "add_python_version"
    /\ Assign([raised |-> "none", pyproject |-> AddPythonVersion(pyproject, setup)],
              "add_python_version", "add_build_system")

\* line 241
AddBuildSystemStep ==
    /\ pc = "add_build_system"
    /\ Assign([raised |-> "none", pyproject |-> AddBuildSystem(pyproject)],
              "add_build_system", "add_requirement_section")

\* line 242
AddRequirementSectionStep ==
    /\ pc = "add_requirement_section"
    /\ Assign(AddRequirementSection(pyproject, Iterate(requirements), FALSE),
              "add_requirement_section", "add_requirement_section_dev")

\* line 243
AddRequirementSectionDevStep ==
    /\ pc = "add_requirement_section_dev"
    /\ Assign(AddRequirementSection(pyproject, Iterate(requirements_dev), TRUE),
              "add_requirement_section_dev", "add_scripts")

\* line 244
AddScriptsStep ==
    /\ pc = "add_scripts"
    /\ Assign([raised |-> "none", pyproject |-> AddScripts(pyproject, setup)],
              "add_scripts", "add_private_repo")

\* lines 246-247
AddPrivateRepoStep ==
    /\ pc = "add_private_repo"
    /\ IF Truthy(private_repo)
       THEN Assign(AddPrivateRepo(pyproject, private_repo),
                   "add_private_repo", "toml_dump")
       ELSE /\ pc' = "toml_dump"
            /\ UNCHANGED <<package_path, namespace, delete, private_repo, files,
                           setup, requirements, requirements_dev, pyproject, err,
                           done, read, arg, ret>>

\* line 249: toml.dump(pyproject, pyproject_path.open("w"))
TomlDump ==
    /\ pc = "toml_dump"
    /\ files' = [files EXCEPT !.pyproject_toml = File(pyproject)]
    /\ done' = Append(done, "toml_dump")
    /\ pc' = "check_dependencies"
    /\ UNCHANGED <<package_path, namespace, delete, private_repo, setup,
                   requirements, requirements_dev, pyproject, err, read, arg, ret>>

\* check_dependencies: poetry lock, then poetry install; check_call raises on
\* a non-zero exit status.
CheckDependencies ==
    /\ pc = "check_dependencies"
    /\ \E lock_ok \in BOOLEAN, install_ok \in BOOLEAN :
          IF ~lock_ok
          THEN /\ done' = Append(done, "poetry_lock")
               /\ Raise([raised |-> "CalledProcessError"])
          ELSE IF ~install_ok
          THEN /\ done' = done \o <<"poetry_lock", "poetry_install">>
               /\ Raise([raised |-> "CalledProcessError"])
          ELSE /\ done' = done \o <<"poetry_lock", "poetry_install",
                                    "check_dependencies">>
               /\ pc' = "update_safety_check"
               /\ UNCHANGED err
    /\ UNCHANGED <<package_path, namespace, delete, private_repo, files, setup,
                   requirements, requirements_dev, pyproject, read, arg, ret>>

\* update_safety_check: bin/check is read, patched and written back; reading
\* it raises when the package has none.
UpdateSafetyCheck ==
    /\ pc = "update_safety_check"
    /\ \E check_exists \in BOOLEAN :
          IF check_exists
          THEN /\ done' = Append(done, "update_safety_check")
               /\ pc' = "remove"
               /\ UNCHANGED err
          ELSE /\ Raise([raised |-> "FileNotFoundError"])
               /\ UNCHANGED done
    /\ UNCHANGED <<package_path, namespace, delete, private_repo, files, setup,
                   requirements, requirements_dev, pyproject, read, arg, ret>>

\* lines 292-294
Remove ==
    /\ pc = "remove"
    /\ IF delete
       THEN /\ files' = [files EXCEPT !.requirements = FALSE, !.setup_py = NoFile]
            /\ done' = done \o <<"remove_requirements", "remove_setup">>
       ELSE UNCHANGED <<files, done>>
    /\ pc' = "done"
    /\ UNCHANGED <<package_path, namespace, delete, private_repo, setup,
                   requirements, requirements_dev, pyproject, err, read, arg, ret>>

Next ==
    \/ ReadSetup
    \/ LoadRequirementsStep
    \/ LoadRequirementsDevStep
    \/ TomlLoad
    \/ AddPoetrySectionStep
    \/ AddPythonVersionStep
    \/ AddBuildSystemStep
    \/ AddRequirementSectionStep
    \/ AddRequirementSectionDevStep
    \/ AddScriptsStep
    \/ AddPrivateRepoStep
    \/ TomlDump
    \/ CheckDependencies
    \/ UpdateSafetyCheck
    \/ Remove

Spec == Init /\ [][Next]_vars

-----------------------------------------------------------------------------
(* Properties of migrate, under Spec *)

Did(step) == \E i \in 1..Len(done) : done[i] = step

\* C1: the legacy files are removed only when the delete flag is set and
\* metadata extraction, reconciliation of both pairs, translation of both
\* sections, assembly (through to the written manifest) and the external tool
\* have all completed earlier in the run.
C1_DeletionGated ==
    (Did("remove_requirements") \/ Did("remove_setup")
        \/ ~files.requirements \/ (arg.setup_py.exists /\ ~files.setup_py.exists))
    => /\ delete
       /\ Did("add_poetry_section")
       /\ Did("load_requirements") /\ Did("load_requirements_dev")
       /\ Did("add_requirement_section") /\ Did("add_requirement_section_dev")
       /\ Did("toml_dump")
       /\ Did("check_dependencies")

\* The nameless entries of a parsed file, in file order.
Nameless(reqs) ==
    LET at == Ascending({i \in 1..Len(reqs) : reqs[i].name = None})
    IN  [n \in 1..Len(at) |-> reqs[at[n]]]

\* C8: when the wanted file of a pair (both files present) holds nameless
\* entries, that load_requirements call ends the run with one ValueError
\* listing every nameless entry in file order: it returns no generator, and
\* the manifest has been neither loaded nor written; without a nameless
\* entry no such error is raised.
C8_MissingNamesBatch ==
    (read.live /\ read.txt_file.exists) =>
        LET nameless == Nameless(read.in_file.content)
        IN  IF nameless # <<>>
            THEN /\ pc = "failed"
                 /\ err.raised = "ValueError"
                 /\ err.missing_names = nameless
                 /\ ~requirements_dev.made
                 /\ ~Did("load_requirements") => ~requirements.made
                 /\ ~Did("toml_load") /\ ~Did("toml_dump")
                 /\ files.pyproject_toml = arg.pyproject_toml
            ELSE ~(pc = "failed" /\ err.raised = "ValueError")

\* The development pair's wanted file held two different nameless entries.
C8_Witness ==
    /\ pc = "failed"
    /\ err.raised = "ValueError"
    /\ done = <<"load_requirements">>
    /\ Len(err.missing_names) = 2
    /\ err.missing_names[1] # err.missing_names[2]
    /\ arg.pyproject_toml.exists

Written == Did("toml_dump")

ManifestBefore == arg.pyproject_toml.content

ManifestAfter == files.pyproject_toml.content

PoetryIn(manifest) == Get(Get(manifest, "tool", EmptyDict), "poetry", EmptyDict)

\* Keys b has kept from a with their values, outside `touched`.
KeptOutside(a, b, touched) ==
    \A k \in (DOMAIN a) \ touched : k \in DOMAIN b /\ b[k] = a[k]

NamesYielded(generator) ==
    LET items == Iterate(generator).items
    IN  {items[i].name : i \in 1..Len(items)}

ScriptNames ==
    LET matches == FindAll(setup, "console_script")
    IN  {matches[i][1] : i \in 1..Len(matches)}

IdentityKeys ==
    {"name", "description", "authors", "readme", "repository", "version"}

\* What a successful assembly keeps, when `identity` are the tool.poetry keys
\* it may rewrite, and that assembling again from its own output with the
\* same inputs changes nothing.
FrameAndIdempotence(identity) ==
    LET before == PoetryIn(ManifestBefore)
        after == PoetryIn(ManifestAfter)
        sources == Get(before, "source", <<>>)
        sourcesAfter == Get(after, "source", <<>>)
    IN  /\ KeptOutside(ManifestBefore, ManifestAfter, {"tool", "build-system"})
        /\ KeptOutside(Get(ManifestBefore, "tool", EmptyDict),
                       ManifestAfter["tool"], {"poetry"})
        /\ KeptOutside(before, after,
                       identity \cup {"dependencies", "dev-dependencies",
                                      "scripts", "source"})
        /\ KeptOutside(Get(before, "dependencies", EmptyDict),
                       after["dependencies"],
                       NamesYielded(requirements) \cup {PythonKey})
        /\ KeptOutside(Get(before, "dev-dependencies", EmptyDict),
                       after["dev-dependencies"],
                       NamesYielded(requirements_dev))
        /\ KeptOutside(Get(before, "scripts", EmptyDict),
                       Get(after, "scripts", EmptyDict), ScriptNames)
        /\ Len(sourcesAfter) >= Len(sources)
        /\ \A i \in 1..Len(sources) :
              (private_repo = None \/ sources[i].name # RepoName(private_repo))
                  => sourcesAfter[i] = sources[i]
        /\ Assemble(ManifestAfter, package_path, setup, namespace,
                    requirements, requirements_dev, private_repo)
             = [raised |-> "none", pyproject |-> ManifestAfter]

\* C9 as stated: a successful assembly keeps every top-level section other
\* than tool.poetry and build-system, every tool.poetry key other than the
\* identity fields, dependency entries of other names (python aside), script
\* entries of other names and sources of other names; and assembling again
\* from its own output with the same inputs gives the same manifest.
C9_OnlyIdentityFieldsRewritten ==
    Written => FrameAndIdempotence(IdentityKeys)

\* C9, amended: the same, with packages among the tool.poetry keys the
\* assembly rewrites when a namespace is given.
C9_FrameAndIdempotence ==
    Written =>
        FrameAndIdempotence(IdentityKeys
                            \cup (IF namespace # None /\ namespace # <<>>
                                  THEN {"packages"} ELSE {}))

\* The hand-written manifest went through an assembly that wrote every
\* section: a namespace, a dependency, entry points and a registry.
C9_Witness ==
    /\ Written
    /\ arg.pyproject_toml = File(HandWritten)
    /\ setup = SetupFull
    /\ namespace = <<"n", "s">>
    /\ private_repo # None
    /\ NamesYielded(requirements) # {}
    /\ NamesYielded(requirements_dev) # {}

StepsBeforeDump ==
    <<"load_requirements", "load_requirements_dev", "toml_load",
      "add_poetry_section", "add_python_version", "add_build_system",
      "add_requirement_section", "add_requirement_section_dev", "add_scripts">>
    \o (IF private_repo # None /\ private_repo # <<>>
        THEN <<"add_private_repo">> ELSE <<>>)

\* C10: the manifest is written at most once, and only after extraction, both
\* reconciliations, both translations and the assembly have completed in
\* order; until then the file on disk is as the run found it, and when one
\* of those steps raises the external tool is not invoked and the shell
\* script is not patched.
C10_ManifestWrittenLast ==
    LET dumps == {i \in 1..Len(done) : done[i] = "toml_dump"}
    IN  /\ Cardinality(dumps) <= 1
        /\ \A i \in dumps : SubSeq(done, 1, i - 1) = StepsBeforeDump
        /\ dumps = {} => files.pyproject_toml = arg.pyproject_toml
        /\ (arg.setup_py.exists /\ dumps = {})
              => ~Did("poetry_lock") /\ ~Did("poetry_install")
                 /\ ~Did("update_safety_check")

\* A translation that raised halfway, the hand-written manifest still on disk.
C10_Witness ==
    /\ pc = "failed"
    /\ err.raised = "NotImplementedError"
    /\ Did("add_requirement_section")
    /\ arg.pyproject_toml = File(HandWritten)
    /\ files.pyproject_toml = File(HandWritten)

====
